---- MODULE Spec2Model ----
(***************************************************************************)
(* BadgerDB buffer manager (src/bufmgr/src/buffer.cpp): the frame table,   *)
(* the buffer pool, the hash table from (file, pageNo) to frame, the clock *)
(* hand, and the page store of each file behind it.                        *)
(***************************************************************************)
EXTENDS Integers, Sequences, FiniteSets, TLC

\* ------------------------------------------------------------ bounds
MaxBufs == 2
MaxPageNo == 2
MaxPinCnt == 2

Files == {"f1", "f2"}
NULL == "NULL"
INVALID_NUMBER == 0
PageIds == 1 .. MaxPageNo
\* Page content: the empty page (0) and one other content; the manager never looks
\* into a page's content, it only copies it.
Data == {0, 1}
NoPage == 0 - 1
NoFrame == 0 - 1

\* The second file is a one-page file: enough for the pool to hold frames of two
\* files at once.
Capacity(file) == IF file = "f1" THEN MaxPageNo ELSE 1

VARIABLES numBufs, bufDescTable, bufPool, hashTable, clockHand, store, writeFails,
          scan, disciplined, lastDirty

vars == <<numBufs, bufDescTable, bufPool, hashTable, clockHand, store, writeFails,
          scan, disciplined, lastDirty>>

\* The frames of the pool: BufMgr(bufs) makes bufs of them.
Frames == 0 .. (numBufs - 1)

\* ------------------------------------------------------------ BufDesc
\* BufDesc::Clear(): the born state of a frame descriptor.
Clear == [valid |-> FALSE, refbit |-> FALSE, pinCnt |-> 0, dirty |-> FALSE,
          file |-> NULL, pageNo |-> INVALID_NUMBER]

\* BufDesc::Set(file, pageNo)
Set(file, pageNo) == [valid |-> TRUE, refbit |-> TRUE, pinCnt |-> 1, dirty |-> FALSE,
                      file |-> file, pageNo |-> pageNo]

\* A default-constructed Page.
EmptyPage == [pn |-> INVALID_NUMBER, data |-> 0]

\* ------------------------------------------------------------ BufHashTbl
hashHas(hash, file, pageNo) == \E e \in hash : e.file = file /\ e.pageNo = pageNo

\* BufHashTbl::lookup, where the key is present
hashLookup(hash, file, pageNo) ==
    (CHOOSE e \in hash : e.file = file /\ e.pageNo = pageNo).frameNo

\* BufHashTbl::insert, where the key is absent (it throws otherwise)
hashInsert(hash, file, pageNo, frameNo) ==
    hash \cup {[file |-> file, pageNo |-> pageNo, frameNo |-> frameNo]}

\* BufHashTbl::remove, where the key is present (it throws otherwise)
hashRemove(hash, file, pageNo) ==
    {e \in hash : ~(e.file = file /\ e.pageNo = pageNo)}

\* ------------------------------------------------------------ File (the page store)
fileHas(st, file, pageNo) ==
    file \in Files /\ pageNo \in PageIds /\ st[file][pageNo] # NoPage

\* File::writePage(page): the page carries its own number
fileWrite(st, file, page) == [st EXCEPT ![file][page.pn] = page.data]

\* File::readPage(pageNo)
fileRead(st, file, pageNo) == [pn |-> pageNo, data |-> st[file][pageNo]]

\* File::allocatePage(): a page number not in use gets an empty page
fileAllocate(st, file, pageNo) == [st EXCEPT ![file][pageNo] = 0]

\* File::deletePage(pageNo)
fileDelete(st, file, pageNo) == [st EXCEPT ![file][pageNo] = NoPage]

\* File::writePage(page) fails with an IO error while the store's writes fail.
writeThrows(file) == writeFails

\* ------------------------------------------------------------ the clock
advanceClock(hand) == (hand + 1) % numBufs

\* The pin test of the scan, lost.
isPinnedLost(d) == FALSE

isPinned(d) == d.pinCnt > 0

\* The exhaustion test one pinned frame late.
exceededLate(numPinned) == numPinned = numBufs + 1

\* numPinned after one more pinned frame has been met: is the pool exhausted?
exceeded(numPinned) == numPinned = numBufs

\* The scan of allocBuf, lines 85-99: from the frame at the hand, with numPinned
\* pinned frames met so far and n frames inspected. The verdict is "free" (the
\* frame at the hand is invalid), "victim" (valid, refbit clear, not pinned) or
\* "exceeded" (BufferExceededException).
RECURSIVE allocBufScan(_, _, _, _)
allocBufScan(desc, hand, numPinned, n) ==
    IF ~desc[hand].valid
    THEN [desc |-> desc, hand |-> hand, verdict |-> "free", inspected |-> n]
    ELSE IF desc[hand].refbit
    THEN allocBufScan([desc EXCEPT ![hand].refbit = FALSE], advanceClock(hand),
                      numPinned, n + 1)
    ELSE IF isPinned(desc[hand])
    THEN IF exceeded(numPinned + 1)
         THEN [desc |-> desc, hand |-> hand, verdict |-> "exceeded", inspected |-> n]
         ELSE allocBufScan(desc, advanceClock(hand), numPinned + 1, n + 1)
    ELSE [desc |-> desc, hand |-> hand, verdict |-> "victim", inspected |-> n]

\* The write-back of the victim, skipped.
needsWriteNever(d) == FALSE

\* Is the victim written back before its frame is reused?
needsWrite(d) == d.dirty

\* The write-back of the victim, taking the page of the next frame.
victimPageNext(pool, f) == pool[(f + 1) % numBufs]

\* The page written back for the victim in frame f.
victimPage(pool, f) == pool[f]

\* The victim's entry left in the hash table.
evictRemoveNot(hash, d) == hash

\* The hash table after the victim d has been taken out of it.
evictRemove(hash, d) == hashRemove(hash, d.file, d.pageNo)

\* The victim's write-back fails and the failure is dropped: the eviction goes on.
writeAbortsNot(d) == FALSE

\* line 104: the exception of writePage leaves allocBuf before line 105
writeAborts(d) == needsWrite(d) /\ writeThrows(d.file)

\* allocBuf(frame): the outcome on the pool given by desc, pool, hash, hand and
\* the store st. exc is "none" or the exception that leaves allocBuf, frame the
\* frame returned, victim the frame whose page was evicted (NoFrame: none was),
\* writes the store's writePage calls, inspected the number of frames inspected.
allocBuf(desc, pool, hash, hand, st) ==
    LET r == allocBufScan(desc, advanceClock(hand), 0, 1)
        f == r.hand
        d == r.desc[f]
        base == [desc |-> r.desc, hash |-> hash, hand |-> f, store |-> st,
                 writes |-> <<>>, victim |-> NoFrame, frame |-> NoFrame,
                 inspected |-> r.inspected, exc |-> "none"]
    IN  IF r.verdict = "exceeded"
        THEN [base EXCEPT !.exc = "BufferExceededException"]
        ELSE IF r.verdict = "free"
        THEN [base EXCEPT !.desc = [r.desc EXCEPT ![f] = Clear], !.frame = f]
        ELSE IF writeAborts(d)
        THEN [base EXCEPT !.exc = "IOError"]
        ELSE LET w  == needsWrite(d)
                 st1 == IF w THEN fileWrite(st, d.file, victimPage(pool, f)) ELSE st
                 ws  == IF w THEN <<[file |-> d.file, page |-> victimPage(pool, f)]>>
                        ELSE <<>>
                 d1  == [r.desc EXCEPT ![f].dirty = IF w THEN FALSE ELSE @]
             IN  IF ~hashHas(hash, d.file, d.pageNo)
                 THEN [base EXCEPT !.desc = d1, !.store = st1, !.writes = ws,
                                   !.exc = "HashNotFoundException"]
                 ELSE [base EXCEPT !.desc = [d1 EXCEPT ![f] = Clear],
                                   !.hash = evictRemove(hash, d),
                                   !.store = st1, !.writes = ws,
                                   !.victim = f, !.frame = f]

\* ------------------------------------------------------------ the operations
\* What an operation does in the current state: the pool and the store after it
\* (desc, pool, hash, hand, store), the outcome its caller sees ("ok" or the
\* exception that leaves it), whether its hash lookup hit, what allocBuf did in
\* it ("none": not called, "returned", or the exception that left it), the frame
\* the page handle is set to (NoFrame: not set), the store's writePage calls in
\* order, the frame allocBuf evicted a page from (NoFrame: none) and the number
\* of frames allocBuf inspected.
NoOp == [desc |-> bufDescTable, pool |-> bufPool, hash |-> hashTable,
         hand |-> clockHand, store |-> store, outcome |-> "ok", hit |-> FALSE,
         alloc |-> "none", page |-> NoFrame, writes |-> <<>>, victim |-> NoFrame,
         inspected |-> 0]

allocOf(a) == IF a.exc = "none" THEN "returned" ELSE a.exc

\* The part of an operation's result that allocBuf decides.
afterAlloc(a) == [NoOp EXCEPT !.desc = a.desc, !.hash = a.hash, !.hand = a.hand,
                              !.store = a.store, !.alloc = allocOf(a),
                              !.writes = a.writes, !.victim = a.victim,
                              !.inspected = a.inspected]

\* The page handle set to the first frame of the pool.
handedOutFirst(a) == 0

\* lines 143 and 237: page = &bufPool[frameNo], the frame allocBuf returned
handedOut(a) == a.frame

\* A hit that pins the frame and leaves its refbit as it is.
readPageHitNoRef(desc, frameNo) == [desc EXCEPT ![frameNo].pinCnt = @ + 1]

\* lines 128-132: the page is in the pool
readPageHit(desc, frameNo) ==
    [desc EXCEPT ![frameNo].refbit = TRUE, ![frameNo].pinCnt = @ + 1]

\* line 144: the exceptions of allocBuf that readPage catches and drops
readPageCatches(exc) == exc = "BufferExceededException"

readPage(file, pageNo) ==
    IF hashHas(hashTable, file, pageNo)
    THEN LET frameNo == hashLookup(hashTable, file, pageNo)
         IN  [NoOp EXCEPT !.desc = readPageHit(bufDescTable, frameNo),
                          !.hit = TRUE, !.page = frameNo]
    ELSE LET a == allocBuf(bufDescTable, bufPool, hashTable, clockHand, store)
             r == afterAlloc(a)
         IN  IF a.exc # "none"
             THEN [r EXCEPT !.outcome = IF readPageCatches(a.exc) THEN "ok" ELSE a.exc]
             ELSE IF ~fileHas(a.store, file, pageNo)
             THEN [r EXCEPT !.outcome = "InvalidPageException"]
             ELSE [r EXCEPT !.pool = [bufPool EXCEPT ![a.frame] =
                                          fileRead(a.store, file, pageNo)],
                            !.hash = hashInsert(a.hash, file, pageNo, a.frame),
                            !.desc = [a.desc EXCEPT ![a.frame] = Set(file, pageNo)],
                            !.page = handedOut(a)]

\* unPinPage storing its argument in the dirty flag.
unPinAssign(desc, frameNo, dirty) ==
    [desc EXCEPT ![frameNo].pinCnt = @ - 1, ![frameNo].dirty = dirty]

\* lines 167-170
unPin(desc, frameNo, dirty) ==
    [desc EXCEPT ![frameNo].pinCnt = @ - 1,
                 ![frameNo].dirty = IF dirty THEN TRUE ELSE @]

\* lines 173-175: what the caller sees when the page is not in the hash table
unPinMiss == "ok"

unPinPage(file, pageNo, dirty) ==
    IF hashHas(hashTable, file, pageNo)
    THEN LET frameNo == hashLookup(hashTable, file, pageNo)
         IN  IF bufDescTable[frameNo].pinCnt = 0
             THEN [NoOp EXCEPT !.hit = TRUE, !.outcome = "PageNotPinnedException"]
             ELSE [NoOp EXCEPT !.hit = TRUE,
                               !.desc = unPin(bufDescTable, frameNo, dirty)]
    ELSE [NoOp EXCEPT !.outcome = unPinMiss]

\* flushFile leaving the descriptor as it is.
flushDropNot(desc, i) == desc

\* lines 205-209: the frame is dropped from the hash table and cleared
flushDrop(desc, i) == [desc EXCEPT ![i] = Clear]

\* The pin test of flushFile, lost.
flushPinnedNot(d) == FALSE

\* line 194: a frame of the file that is still pinned stops flushFile
flushPinned(d) == d.pinCnt > 0

\* The loop of flushFile from frame i on, ws the writePage calls made so far.
RECURSIVE flushFrom(_, _, _, _, _, _, _)
flushFrom(i, file, desc, pool, hash, st, ws) ==
    LET out(exc) == [desc |-> desc, hash |-> hash, store |-> st, writes |-> ws,
                     exc |-> exc]
    IN  IF i = numBufs THEN out("none")
        ELSE IF desc[i].file # file THEN flushFrom(i + 1, file, desc, pool, hash, st, ws)
        ELSE IF ~desc[i].valid THEN out("BadBufferException")
        ELSE IF flushPinned(desc[i]) THEN out("PagePinnedException")
        ELSE IF desc[i].dirty /\ writeThrows(desc[i].file) THEN out("IOError")
        ELSE LET w   == desc[i].dirty
                 st1 == IF w THEN fileWrite(st, desc[i].file, pool[i]) ELSE st
                 ws1 == IF w THEN Append(ws, [file |-> desc[i].file, page |-> pool[i]])
                        ELSE ws
                 d1  == [desc EXCEPT ![i].dirty = IF w THEN FALSE ELSE @]
             IN  IF ~hashHas(hash, file, desc[i].pageNo)
                 THEN [desc |-> d1, hash |-> hash, store |-> st1, writes |-> ws1,
                       exc |-> "HashNotFoundException"]
                 ELSE flushFrom(i + 1, file, flushDrop(d1, i), pool,
                                hashRemove(hash, file, desc[i].pageNo), st1, ws1)

flushFile(file) ==
    LET r == flushFrom(0, file, bufDescTable, bufPool, hashTable, store, <<>>)
    IN  [NoOp EXCEPT !.desc = r.desc, !.hash = r.hash, !.store = r.store,
                     !.writes = r.writes,
                     !.outcome = IF r.exc = "none" THEN "ok" ELSE r.exc]

\* allocPage, where File::allocatePage() gives the new page the number pageNo
allocPage(file, pageNo) ==
    LET newPage == [pn |-> pageNo, data |-> 0]
        a == allocBuf(bufDescTable, bufPool, hashTable, clockHand,
                      fileAllocate(store, file, pageNo))
        r == afterAlloc(a)
    IN  IF a.exc # "none"
        THEN [r EXCEPT !.outcome = a.exc]
        ELSE IF hashHas(a.hash, file, pageNo)
        THEN [r EXCEPT !.outcome = "HashAlreadyPresentException"]
        ELSE [r EXCEPT !.hash = hashInsert(a.hash, file, pageNo, a.frame),
                       !.pool = [bufPool EXCEPT ![a.frame] = newPage],
                       !.desc = [a.desc EXCEPT ![a.frame] = Set(file, pageNo)],
                       !.page = handedOut(a)]

\* disposePage leaving the descriptor as it is.
disposeClearNot(desc, frameNo) == desc

\* line 256: the frame of the disposed page is cleared
disposeClear(desc, frameNo) == [desc EXCEPT ![frameNo] = Clear]

disposePage(file, pageNo) ==
    IF ~fileHas(store, file, pageNo)
    THEN [NoOp EXCEPT !.outcome = "InvalidPageException"]
    ELSE IF hashHas(hashTable, file, pageNo)
    THEN [NoOp EXCEPT !.store = fileDelete(store, file, pageNo), !.hit = TRUE,
                      !.hash = hashRemove(hashTable, file, pageNo),
                      !.desc = disposeClear(bufDescTable,
                                            hashLookup(hashTable, file, pageNo))]
    ELSE [NoOp EXCEPT !.store = fileDelete(store, file, pageNo)]

\* The destructor writing back every valid frame, clean ones too.
destroyWritesAll(d) == d.valid

\* line 49: the frames the destructor writes back
destroyWrites(d) == d.dirty /\ d.valid

\* The loop of ~BufMgr from frame i on, ws the writePage calls made so far. An
\* exception that leaves a destructor ends the process: no later frame is written.
RECURSIVE destroyFrom(_, _, _, _)
destroyFrom(i, desc, st, ws) ==
    IF i = numBufs THEN [desc |-> desc, store |-> st, writes |-> ws, exc |-> "none"]
    ELSE IF ~destroyWrites(desc[i]) THEN destroyFrom(i + 1, desc, st, ws)
    ELSE IF writeThrows(desc[i].file)
    THEN [desc |-> desc, store |-> st, writes |-> ws, exc |-> "IOError"]
    ELSE destroyFrom(i + 1, [desc EXCEPT ![i].dirty = FALSE],
                     fileWrite(st, desc[i].file, bufPool[i]),
                     Append(ws, [file |-> desc[i].file, page |-> bufPool[i]]))

\* ~BufMgr(): the descriptors and the store as they are when the pool is released.
destroy ==
    LET r == destroyFrom(0, bufDescTable, store, <<>>)
    IN  [NoOp EXCEPT !.desc = r.desc, !.store = r.store, !.writes = r.writes,
                     !.outcome = IF r.exc = "none" THEN "ok" ELSE r.exc]

\* ------------------------------------------------------------ the state
\* allocBuf is not running.
Idle == [active |-> FALSE, numPinned |-> 0, inspected |-> 0]

\* The state after BufMgr(numBufs), over files that hold no page yet.
InitPool ==
    /\ numBufs \in 1 .. MaxBufs
    /\ bufDescTable = [i \in Frames |-> Clear]
    /\ bufPool = [i \in Frames |-> EmptyPage]
    /\ hashTable = {}
    /\ clockHand = numBufs - 1
    /\ store = [f \in Files |-> [p \in PageIds |-> NoPage]]
    /\ lastDirty = [f \in Files |-> [p \in PageIds |-> NoPage]]
    /\ writeFails = FALSE
    /\ scan = Idle

\* Callers of any kind: every call, in any order, with any arguments.
Init == InitPool /\ disciplined = FALSE

\* Callers that keep the dirty protocol of unPinPage: see Disciplined.
InitDisciplined == InitPool /\ disciplined = TRUE

\* The pool and the store become what the operation's result says.
Becomes(r) ==
    /\ bufDescTable' = r.desc
    /\ bufPool' = r.pool
    /\ hashTable' = r.hash
    /\ clockHand' = r.hand
    /\ store' = r.store
    /\ UNCHANGED <<numBufs, writeFails, scan, disciplined>>

\* lastDirty is a history kept for the disciplined callers: the content a page
\* had when it was last unpinned with dirty set (NoPage: not since the page was
\* allocated).
Tracks(h) == lastDirty' = IF disciplined THEN h ELSE lastDirty

\* The page's content in the pool differs from the content that would reach the
\* store if it were evicted as its descriptor stands.
Unsaved(file, pageNo) ==
    /\ hashHas(hashTable, file, pageNo)
    /\ LET frameNo == hashLookup(hashTable, file, pageNo)
       IN  bufPool[frameNo].data #
               IF bufDescTable[frameNo].dirty THEN lastDirty[file][pageNo]
               ELSE store[file][pageNo]

\* The dirty protocol: the caller that gives up the last pin of a page whose
\* content was changed and not yet reported says dirty.
Disciplined(file, pageNo, dirty) ==
    (/\ ~dirty
     /\ Unsaved(file, pageNo)
     /\ bufDescTable[hashLookup(hashTable, file, pageNo)].pinCnt = 1) => ~disciplined

ReadPage(file, pageNo) ==
    /\ hashHas(hashTable, file, pageNo) =>
           bufDescTable[hashLookup(hashTable, file, pageNo)].pinCnt < MaxPinCnt
    /\ Becomes(readPage(file, pageNo))
    /\ UNCHANGED lastDirty

UnPinPage(file, pageNo, dirty) ==
    LET r == unPinPage(file, pageNo, dirty)
    IN  /\ Disciplined(file, pageNo, dirty)
        /\ Becomes(r)
        /\ Tracks(IF r.hit /\ r.outcome = "ok" /\ dirty
                  THEN [lastDirty EXCEPT ![file][pageNo] =
                            bufPool[hashLookup(hashTable, file, pageNo)].data]
                  ELSE lastDirty)

FlushFile(file) ==
    /\ Becomes(flushFile(file))
    /\ UNCHANGED lastDirty

AllocPage(file, pageNo) ==
    /\ pageNo <= Capacity(file)
    /\ ~fileHas(store, file, pageNo)
    /\ Becomes(allocPage(file, pageNo))
    /\ Tracks([lastDirty EXCEPT ![file][pageNo] = NoPage])

DisposePage(file, pageNo) ==
    LET r == disposePage(file, pageNo)
    IN  /\ Becomes(r)
        /\ Tracks(IF r.outcome = "ok" THEN [lastDirty EXCEPT ![file][pageNo] = NoPage]
                  ELSE lastDirty)

\* A caller that holds a pin on the page writes through the handle it was given
\* (page = &bufPool[frameNo]).
WriteThroughHandle(file, pageNo, v) ==
    /\ hashHas(hashTable, file, pageNo)
    /\ LET frameNo == hashLookup(hashTable, file, pageNo)
       IN  /\ bufDescTable[frameNo].pinCnt > 0
           /\ bufPool[frameNo].data # v
           /\ bufPool' = [bufPool EXCEPT ![frameNo].data = v]
    /\ UNCHANGED <<numBufs, bufDescTable, hashTable, clockHand, store, writeFails,
                   scan, disciplined, lastDirty>>

\* The manager is destroyed (~BufMgr) and a manager of the same size is made
\* over the same files (BufMgr): what the destructor wrote is what the files hold.
Restart ==
    /\ bufDescTable' = [i \in Frames |-> Clear]
    /\ bufPool' = [i \in Frames |-> EmptyPage]
    /\ hashTable' = {}
    /\ clockHand' = numBufs - 1
    /\ store' = destroy.store
    /\ Tracks([f \in Files |-> [p \in PageIds |-> NoPage]])
    /\ UNCHANGED <<numBufs, writeFails, scan, disciplined>>

\* The store's writePage starts or stops failing with an IO error.
StoreFails ==
    /\ writeFails' = ~writeFails
    /\ UNCHANGED <<numBufs, bufDescTable, bufPool, hashTable, clockHand, store, scan,
                   disciplined, lastDirty>>

\* allocBuf step by step (its caller left out). Lines 81-82: the call begins.
AllocBufEnter ==
    /\ ~scan.active
    /\ clockHand' = advanceClock(clockHand)
    /\ scan' = [active |-> TRUE, numPinned |-> 0, inspected |-> 1]
    /\ UNCHANGED <<numBufs, bufDescTable, bufPool, hashTable, store, writeFails,
                   disciplined, lastDirty>>

\* A loop that passes the frame at the hand by and counts nothing.
AllocBufSpin ==
    /\ scan.active
    /\ clockHand' = advanceClock(clockHand)
    /\ UNCHANGED <<numBufs, bufDescTable, bufPool, hashTable, store, writeFails,
                   scan, disciplined, lastDirty>>

\* Lines 85-114: one test of the loop condition and what follows it, either one
\* pass through the loop body or the end of the call.
AllocBufLoop ==
    /\ scan.active
    /\ LET d == bufDescTable[clockHand]
           ends(desc, hash, st) ==
               /\ bufDescTable' = desc /\ hashTable' = hash /\ store' = st
               /\ scan' = Idle
               /\ UNCHANGED clockHand
           goesOn(desc, numPinned) ==
               /\ bufDescTable' = desc
               /\ clockHand' = advanceClock(clockHand)
               /\ scan' = [active |-> TRUE, numPinned |-> numPinned,
                           inspected |-> scan.inspected + 1]
               /\ UNCHANGED <<hashTable, store>>
           cleared == [bufDescTable EXCEPT ![clockHand] = Clear]
       IN  IF ~d.valid THEN ends(cleared, hashTable, store)
           ELSE IF d.refbit
           THEN goesOn([bufDescTable EXCEPT ![clockHand].refbit = FALSE], scan.numPinned)
           ELSE IF isPinned(d)
           THEN IF exceeded(scan.numPinned + 1)
                THEN ends(bufDescTable, hashTable, store)
                ELSE goesOn(bufDescTable, scan.numPinned + 1)
           ELSE IF writeAborts(d) THEN ends(bufDescTable, hashTable, store)
           ELSE LET st1 == IF needsWrite(d)
                           THEN fileWrite(store, d.file, victimPage(bufPool, clockHand))
                           ELSE store
                IN  IF ~hashHas(hashTable, d.file, d.pageNo)
                    THEN ends([bufDescTable EXCEPT ![clockHand].dirty = FALSE],
                              hashTable, st1)
                    ELSE ends(cleared, evictRemove(hashTable, d), st1)
    /\ UNCHANGED <<numBufs, bufPool, writeFails, disciplined, lastDirty>>

\* The operations, each run to its end.
Next ==
    \/ \E file \in Files, pageNo \in PageIds : ReadPage(file, pageNo)
    \/ \E file \in Files, pageNo \in PageIds, dirty \in BOOLEAN :
           UnPinPage(file, pageNo, dirty)
    \/ \E file \in Files : FlushFile(file)
    \/ \E file \in Files, pageNo \in PageIds : AllocPage(file, pageNo)
    \/ \E file \in Files, pageNo \in PageIds : DisposePage(file, pageNo)
    \/ \E file \in Files, pageNo \in PageIds, v \in Data : WriteThroughHandle(file, pageNo, v)
    \/ Restart

\* The operations over a store whose writes may fail.
NextIO ==
    \/ \E file \in Files, pageNo \in PageIds : ReadPage(file, pageNo)
    \/ \E file \in Files, pageNo \in PageIds, dirty \in BOOLEAN :
           UnPinPage(file, pageNo, dirty)
    \/ \E file \in Files : FlushFile(file)
    \/ \E file \in Files, pageNo \in PageIds : AllocPage(file, pageNo)
    \/ \E file \in Files, pageNo \in PageIds : DisposePage(file, pageNo)
    \/ \E file \in Files, pageNo \in PageIds, v \in Data : WriteThroughHandle(file, pageNo, v)
    \/ Restart
    \/ StoreFails

\* The operations, and allocBuf step by step. The manager is single-threaded:
\* while allocBuf runs nothing else does.
NextScan ==
    \/ ~scan.active /\ \E file \in Files, pageNo \in PageIds : ReadPage(file, pageNo)
    \/ ~scan.active /\ \E file \in Files, pageNo \in PageIds, dirty \in BOOLEAN :
           UnPinPage(file, pageNo, dirty)
    \/ ~scan.active /\ \E file \in Files : FlushFile(file)
    \/ ~scan.active /\ \E file \in Files, pageNo \in PageIds : AllocPage(file, pageNo)
    \/ ~scan.active /\ \E file \in Files, pageNo \in PageIds : DisposePage(file, pageNo)
    \/ ~scan.active /\ \E file \in Files, pageNo \in PageIds, v \in Data :
           WriteThroughHandle(file, pageNo, v)
    \/ ~scan.active /\ Restart
    \/ AllocBufEnter
    \/ AllocBufLoop

Spec == Init /\ [][Next]_vars

SpecDisciplined == InitDisciplined /\ [][Next]_vars

SpecIO == Init /\ [][NextIO]_vars

\* allocBuf does not yield: once begun, its loop goes on.
SpecScan == Init /\ [][NextScan]_vars /\ WF_vars(AllocBufLoop)

\* ------------------------------------------------------------ the claims
AllPinned == \A i \in Frames : bufDescTable[i].valid /\ bufDescTable[i].pinCnt > 0

\* Frame i holds the page (file, pageNo).
Holds(desc, i, file, pageNo) ==
    desc[i].valid /\ desc[i].file = file /\ desc[i].pageNo = pageNo

\* The calls of allocPage the store allows: the number of the new page.
CanAllocate(file, pageNo) == pageNo <= Capacity(file) /\ ~fileHas(store, file, pageNo)

\* The results of every call that reaches allocBuf in the current state, with
\* the store as allocBuf finds it.
Misses ==
    {[r |-> readPage(x[1], x[2]), st |-> store] :
         x \in {y \in Files \X PageIds : ~hashHas(hashTable, y[1], y[2])}}
    \cup
    {[r |-> allocPage(x[1], x[2]), st |-> fileAllocate(store, x[1], x[2])] :
         x \in {y \in Files \X PageIds : CanAllocate(y[1], y[2])}}

\* The frames whose page the operation with result r took out of the pool.
Evicted(r) ==
    {i \in Frames : /\ bufDescTable[i].valid
                    /\ ~hashHas(r.hash, bufDescTable[i].file, bufDescTable[i].pageNo)}

\* C1: no two valid frames hold the same (file, pageNo), and the hash table
\* maps no (file, pageNo) to more than one frame.
C1_Uniqueness ==
    /\ \A i, j \in Frames :
           (i # j /\ bufDescTable[i].valid /\ bufDescTable[j].valid) =>
               ~(/\ bufDescTable[i].file = bufDescTable[j].file
                 /\ bufDescTable[i].pageNo = bufDescTable[j].pageNo)
    /\ \A e1, e2 \in hashTable :
           (e1.file = e2.file /\ e1.pageNo = e2.pageNo) => e1 = e2

\* The pool is full and a page that was written has left it again.
C1_Witness ==
    /\ \A i \in Frames : bufDescTable[i].valid
    /\ \E f \in Files, p \in PageIds :
           fileHas(store, f, p) /\ ~hashHas(hashTable, f, p) /\ store[f][p] = 1

\* C2: whatever call reaches allocBuf, the frame whose page it evicts has
\* pinCnt = 0 at that moment.
C2_PinSafety ==
    \A m \in Misses :
        /\ \A i \in Evicted(m.r) : bufDescTable[i].pinCnt = 0
        /\ m.r.victim # NoFrame => bufDescTable[m.r.victim].pinCnt = 0

\* A miss evicts a page while another frame is pinned.
C2_Witness ==
    \E m \in Misses :
        /\ m.r.victim # NoFrame
        /\ m.r.victim \in Evicted(m.r)
        /\ \E i \in Frames : bufDescTable[i].pinCnt > 0

\* C3: allocBuf raises BufferExceededException only when every frame is valid
\* and pinned.
C3_ExceededOnlyWhenAllPinned ==
    \A m \in Misses : m.r.alloc = "BufferExceededException" => AllPinned

\* C4: a readPage that misses with every frame pinned ends with
\* BufferExceededException, and no readPage returns normally with the page
\* handle not set.
C4_ExhaustionPropagated ==
    \A f \in Files, p \in PageIds :
        LET r == readPage(f, p)
        IN  /\ (AllPinned /\ ~hashHas(hashTable, f, p)) =>
                   r.outcome = "BufferExceededException"
            /\ r.outcome = "ok" => r.page # NoFrame

\* C5 as stated: a readPage that misses with every frame pinned leaves the hash
\* table, the store, the pool and every frame descriptor, refbit included, as
\* they were.
C5_ExhaustionChangesNothing ==
    \A f \in Files, p \in PageIds :
        (AllPinned /\ ~hashHas(hashTable, f, p)) =>
            LET r == readPage(f, p)
            IN  /\ r.alloc = "BufferExceededException"
                /\ r.writes = <<>> /\ r.victim = NoFrame /\ Evicted(r) = {}
                /\ r.hash = hashTable /\ r.store = store /\ r.pool = bufPool
                /\ r.desc = bufDescTable

\* C5 as amended: a readPage that misses with every frame pinned fails with
\* exhaustion in allocBuf, evicts and writes nothing, and leaves the hash table,
\* the store, the pool and every descriptor's valid, pinCnt, dirty, file and
\* pageNo as they were; the refbit of every frame is clear afterwards.
C5_ExhaustionKeepsAllButRefbit ==
    \A f \in Files, p \in PageIds :
        (AllPinned /\ ~hashHas(hashTable, f, p)) =>
            LET r == readPage(f, p)
            IN  /\ r.alloc = "BufferExceededException"
                /\ r.writes = <<>> /\ r.victim = NoFrame /\ Evicted(r) = {}
                /\ r.hash = hashTable /\ r.store = store /\ r.pool = bufPool
                /\ r.desc = [i \in Frames |-> [bufDescTable[i] EXCEPT !.refbit = FALSE]]

\* Every frame is pinned, some refbit is set, and a page of the store is not in
\* the pool: reading it fails with exhaustion.
C5_Witness ==
    /\ AllPinned
    /\ \E i \in Frames : bufDescTable[i].refbit
    /\ \E f \in Files, p \in PageIds :
           /\ fileHas(store, f, p) /\ ~hashHas(hashTable, f, p)
           /\ readPage(f, p).alloc = "BufferExceededException"

\* C6: unPinPage on a resident page with pinCnt > 0 takes one off pinCnt, sets
\* dirty when its argument is true and leaves dirty as it was otherwise; with
\* pinCnt = 0 it raises PageNotPinnedException and changes nothing. (A page
\* pinned once has pinCnt = 0 after the first call, so the second call in a row
\* is of the second kind.)
C6_UnPin ==
    \A f \in Files, p \in PageIds, dirty \in BOOLEAN, i \in Frames :
        Holds(bufDescTable, i, f, p) =>
            LET r == unPinPage(f, p, dirty)
                d == bufDescTable[i]
            IN  /\ r.hash = hashTable /\ r.store = store /\ r.pool = bufPool
                /\ r.hand = clockHand /\ r.writes = <<>>
                /\ \A j \in Frames \ {i} : r.desc[j] = bufDescTable[j]
                /\ IF d.pinCnt > 0
                   THEN /\ r.outcome = "ok"
                        /\ r.desc[i] = [d EXCEPT !.pinCnt = d.pinCnt - 1,
                                                 !.dirty = d.dirty \/ dirty]
                   ELSE /\ r.outcome = "PageNotPinnedException"
                        /\ r.desc[i] = d

\* A page was unpinned with dirty set and is not pinned any more: one more
\* unPinPage raises PageNotPinnedException.
C6_Witness ==
    \E i \in Frames :
        /\ bufDescTable[i].valid /\ bufDescTable[i].dirty /\ bufDescTable[i].pinCnt = 0
        /\ unPinPage(bufDescTable[i].file, bufDescTable[i].pageNo, FALSE).outcome
               = "PageNotPinnedException"

\* C7: unPinPage for a (file, pageNo) that is not in the hash table reports an
\* error to its caller.
C7_UnPinMissReported ==
    \A f \in Files, p \in PageIds, dirty \in BOOLEAN :
        ~hashHas(hashTable, f, p) => unPinPage(f, p, dirty).outcome # "ok"

\* C8: when allocBuf evicts a frame whose dirty flag is set, the store receives
\* exactly one writePage call, with that frame's page, the store holds that
\* content afterwards and the frame's dirty flag is clear; when the victim's
\* dirty flag is clear the store receives no writePage call.
C8_DirtyWriteBack ==
    \A m \in Misses : \A i \in Evicted(m.r) :
        LET d == bufDescTable[i]
        IN  IF d.dirty
            THEN /\ m.r.writes = <<[file |-> d.file, page |-> bufPool[i]]>>
                 /\ bufPool[i].pn = d.pageNo
                 /\ m.r.store = [m.st EXCEPT ![d.file][d.pageNo] = bufPool[i].data]
                 /\ ~m.r.desc[i].dirty
            ELSE /\ m.r.writes = <<>>
                 /\ m.r.store = m.st

\* A miss evicts a dirty frame whose content differs from the store's.
C8_Witness ==
    \E m \in Misses : \E i \in Evicted(m.r) :
        /\ bufDescTable[i].dirty
        /\ store[bufDescTable[i].file][bufDescTable[i].pageNo] # bufPool[i].data
        /\ Len(m.r.writes) = 1

\* C9: with callers that keep the dirty protocol, a page of the store that is
\* not in the pool has the content it had when it was last unpinned dirty, and
\* readPage brings that content back.
C9_RoundTrip ==
    \A f \in Files, p \in PageIds :
        (fileHas(store, f, p) /\ ~hashHas(hashTable, f, p) /\ lastDirty[f][p] # NoPage) =>
            /\ store[f][p] = lastDirty[f][p]
            /\ LET r == readPage(f, p)
               IN  r.page # NoFrame =>
                       r.pool[r.page] = [pn |-> p, data |-> lastDirty[f][p]]

\* A page was written, unpinned dirty and has left a full pool; reading it
\* evicts another page and succeeds.
C9_Witness ==
    \E f \in Files, p \in PageIds :
        /\ fileHas(store, f, p) /\ ~hashHas(hashTable, f, p) /\ lastDirty[f][p] = 1
        /\ \A i \in Frames : bufDescTable[i].valid
        /\ readPage(f, p).page # NoFrame

\* The valid frames of the file.
Owned(file) == {i \in Frames : bufDescTable[i].valid /\ bufDescTable[i].file = file}

\* C10: when no frame of the file is pinned, flushFile writes back each dirty
\* frame of the file exactly once; afterwards no valid frame and no hash entry
\* is the file's, and the frames and hash entries of other files and the clock
\* hand are as they were.
C10_FlushFile ==
    \A file \in Files :
        (\A i \in Owned(file) : bufDescTable[i].pinCnt = 0) =>
            LET r == flushFile(file)
                dirtyOnes == {i \in Owned(file) : bufDescTable[i].dirty}
            IN  /\ r.outcome = "ok"
                /\ Len(r.writes) = Cardinality(dirtyOnes)
                /\ \A i \in dirtyOnes :
                       /\ Cardinality({k \in 1 .. Len(r.writes) :
                              r.writes[k] = [file |-> file, page |-> bufPool[i]]}) = 1
                       /\ r.store[file][bufDescTable[i].pageNo] = bufPool[i].data
                /\ \A f \in Files, p \in PageIds :
                       (f # file \/ \A i \in dirtyOnes : bufDescTable[i].pageNo # p) =>
                           r.store[f][p] = store[f][p]
                /\ \A i \in Frames : ~(r.desc[i].valid /\ r.desc[i].file = file)
                /\ \A i \in Frames : r.desc[i].file # file
                /\ \A e \in r.hash : e.file # file
                /\ \A i \in Frames \ Owned(file) : r.desc[i] = bufDescTable[i]
                /\ {e \in r.hash : e.file # file} = {e \in hashTable : e.file # file}
                /\ r.hand = clockHand /\ r.pool = bufPool

\* A file has a dirty unpinned frame beside a frame of another file.
C10_Witness ==
    \E file \in Files :
        /\ \A i \in Owned(file) : bufDescTable[i].pinCnt = 0
        /\ \E i \in Owned(file) : bufDescTable[i].dirty
        /\ \E i \in Frames : bufDescTable[i].valid /\ bufDescTable[i].file # file
        /\ Len(flushFile(file).writes) = 1

\* The frames of the file that are pinned.
PinnedOf(file) == {i \in Owned(file) : bufDescTable[i].pinCnt > 0}

\* The pinned frame of the file with the lowest index.
FirstPinned(file) == CHOOSE k \in PinnedOf(file) : \A i \in PinnedOf(file) : k <= i

\* C11: when a valid frame of the file is pinned, flushFile raises
\* PagePinnedException; the lowest pinned frame of the file and every frame
\* above it are as they were, with their hash entries and content; the frames
\* of the file below it are cleared, the dirty ones among them written back
\* first; the frames of other files are as they were.
C11_FlushPinned ==
    \A file \in Files :
        PinnedOf(file) # {} =>
            LET r == flushFile(file)
                k == FirstPinned(file)
                below == {i \in Owned(file) : i < k}
            IN  /\ r.outcome = "PagePinnedException"
                /\ r.pool = bufPool /\ r.hand = clockHand
                /\ \A i \in Frames : i >= k => r.desc[i] = bufDescTable[i]
                /\ \A i \in Frames \ Owned(file) : r.desc[i] = bufDescTable[i]
                /\ \A e \in hashTable : (e.frameNo >= k \/ e.file # file) => e \in r.hash
                /\ r.hash \subseteq hashTable
                /\ \A i \in below :
                       /\ r.desc[i] = Clear
                       /\ ~hashHas(r.hash, file, bufDescTable[i].pageNo)
                       /\ bufDescTable[i].dirty =>
                              /\ r.store[file][bufDescTable[i].pageNo] = bufPool[i].data
                              /\ \E n \in 1 .. Len(r.writes) :
                                     r.writes[n] = [file |-> file, page |-> bufPool[i]]
                /\ Len(r.writes) = Cardinality({i \in below : bufDescTable[i].dirty})
                /\ \A f \in Files, p \in PageIds :
                       (f # file \/ \A i \in below : ~(bufDescTable[i].dirty /\
                                                         bufDescTable[i].pageNo = p)) =>
                           r.store[f][p] = store[f][p]

\* A file has a dirty unpinned frame below a pinned dirty frame: flushFile
\* writes the first and stops at the second.
C11_Witness ==
    \E file \in Files :
        /\ PinnedOf(file) # {}
        /\ bufDescTable[FirstPinned(file)].dirty
        /\ \E i \in Owned(file) : i < FirstPinned(file) /\ bufDescTable[i].dirty
        /\ Len(flushFile(file).writes) = 1

\* C12: disposePage of a page of the store deletes it there; a frame that holds
\* the page is cleared and its hash entry removed, whatever its pinCnt and
\* dirty flag, and nothing is written back; when no frame holds the page no
\* frame changes. Every other frame, hash entry and page of the store is as it
\* was, and the page is not in the pool afterwards.
C12_DisposePage ==
    \A f \in Files, p \in PageIds :
        fileHas(store, f, p) =>
            LET r == disposePage(f, p)
            IN  /\ r.outcome = "ok"
                /\ r.store = [store EXCEPT ![f][p] = NoPage]
                /\ r.writes = <<>> /\ r.pool = bufPool /\ r.hand = clockHand
                /\ r.hash = {e \in hashTable : ~(e.file = f /\ e.pageNo = p)}
                /\ \A i \in Frames :
                       r.desc[i] = IF Holds(bufDescTable, i, f, p) THEN Clear
                                   ELSE bufDescTable[i]
                /\ \A i \in Frames : ~Holds(r.desc, i, f, p)
                /\ (~hashHas(hashTable, f, p)) => r.desc = bufDescTable

\* A page is in the pool, pinned and dirty, with content the store does not
\* have, beside a frame that holds another page.
C12_Witness ==
    \E f \in Files, p \in PageIds, i \in Frames :
        /\ Holds(bufDescTable, i, f, p) /\ hashHas(hashTable, f, p)
        /\ bufDescTable[i].pinCnt > 0 /\ bufDescTable[i].dirty
        /\ bufPool[i].data # store[f][p]
        /\ \E j \in Frames \ {i} : bufDescTable[j].valid
        /\ disposePage(f, p).desc[i] = Clear

\* C13: readPage of a page that is in the hash table adds one to the pinCnt of
\* its frame, sets its refbit, hands out that frame, reads and writes nothing
\* in the store, and leaves the clock hand, the hash table, the pool and every
\* other frame as they were.
C13_ReadPageHit ==
    \A f \in Files, p \in PageIds :
        hashHas(hashTable, f, p) =>
            LET r == readPage(f, p)
                i == hashLookup(hashTable, f, p)
            IN  /\ r.outcome = "ok" /\ r.hit /\ r.alloc = "none"
                /\ r.page = i /\ Holds(bufDescTable, i, f, p)
                /\ r.desc[i] = [bufDescTable[i] EXCEPT !.pinCnt = bufDescTable[i].pinCnt + 1,
                                                       !.refbit = TRUE]
                /\ \A j \in Frames \ {i} : r.desc[j] = bufDescTable[j]
                /\ r.store = store /\ r.writes = <<>> /\ r.pool = bufPool
                /\ r.hand = clockHand /\ r.hash = hashTable
                /\ r.victim = NoFrame /\ r.inspected = 0

\* A page is in the pool, pinned once, with its refbit cleared by a scan and
\* content the store does not have.
C13_Witness ==
    \E f \in Files, p \in PageIds :
        /\ hashHas(hashTable, f, p)
        /\ LET i == hashLookup(hashTable, f, p)
           IN  /\ ~bufDescTable[i].refbit /\ bufDescTable[i].pinCnt = 1
               /\ bufPool[i].data # store[f][p]
               /\ readPage(f, p).desc[i].pinCnt = 2

\* The frame the scan of allocBuf, begun in the current state, stops at, and
\* whether it stops there to evict a dirty page.
ScanNow == allocBufScan(bufDescTable, advanceClock(clockHand), 0, 1)
DirtyVictimNow == ScanNow.verdict = "victim" /\ bufDescTable[ScanNow.hand].dirty

\* C14: when the store's writePage fails while allocBuf evicts a dirty victim,
\* the failure reaches the caller of readPage or allocPage, and the victim is
\* as it was: valid, dirty, in the hash table under the same (file, pageNo),
\* with the same content; the store got no write, and every descriptor has the
\* valid, pinCnt, dirty, file and pageNo it had (the scan has cleared refbits).
C14_WriteFailureAborts ==
    \A m \in Misses :
        (DirtyVictimNow /\ writeFails) =>
            LET v == ScanNow.hand
            IN  /\ m.r.alloc = "IOError" /\ m.r.outcome = "IOError"
                /\ m.r.page = NoFrame /\ m.r.victim = NoFrame
                /\ m.r.desc[v].valid /\ m.r.desc[v].dirty /\ m.r.desc[v].pinCnt = 0
                /\ m.r.desc[v].file = bufDescTable[v].file
                /\ m.r.desc[v].pageNo = bufDescTable[v].pageNo
                /\ [file |-> bufDescTable[v].file, pageNo |-> bufDescTable[v].pageNo,
                    frameNo |-> v] \in m.r.hash
                /\ m.r.hash = hashTable /\ m.r.pool = bufPool
                /\ m.r.store = m.st /\ m.r.writes = <<>>
                /\ \A i \in Frames :
                       [m.r.desc[i] EXCEPT !.refbit = FALSE] =
                           [bufDescTable[i] EXCEPT !.refbit = FALSE]

\* The store's writes fail and a miss is about to evict a dirty page whose
\* content the store does not have, past a frame whose refbit is set.
C14_Witness ==
    /\ writeFails /\ DirtyVictimNow
    /\ bufPool[ScanNow.hand].data #
           store[bufDescTable[ScanNow.hand].file][bufDescTable[ScanNow.hand].pageNo]
    /\ \E i \in Frames : bufDescTable[i].refbit
    /\ \E m \in Misses : m.r.outcome = "IOError"

\* The frames that are valid and dirty.
DirtyFrames == {i \in Frames : bufDescTable[i].valid /\ bufDescTable[i].dirty}

\* C15: the destructor writes every frame that is valid and dirty to its file,
\* once, with the frame's content, and writes no other frame; the files hold
\* those contents when the pool is released.
C15_DestructorFlush ==
    LET r == destroy
    IN  /\ r.outcome = "ok"
        /\ Len(r.writes) = Cardinality(DirtyFrames)
        /\ \A i \in DirtyFrames :
               /\ Cardinality({k \in 1 .. Len(r.writes) :
                      r.writes[k] = [file |-> bufDescTable[i].file,
                                     page |-> bufPool[i]]}) = 1
               /\ bufPool[i].pn = bufDescTable[i].pageNo
               /\ r.store[bufDescTable[i].file][bufDescTable[i].pageNo] = bufPool[i].data
        /\ \A k \in 1 .. Len(r.writes) :
               \E i \in DirtyFrames :
                   r.writes[k] = [file |-> bufDescTable[i].file, page |-> bufPool[i]]
        /\ \A f \in Files, p \in PageIds :
               (\A i \in DirtyFrames : ~Holds(bufDescTable, i, f, p)) =>
                   r.store[f][p] = store[f][p]

\* The manager is destroyed with a pinned dirty frame and a clean frame that
\* both hold content the store does not have.
C15_Witness ==
    \E i, j \in Frames :
        /\ bufDescTable[i].valid /\ bufDescTable[i].dirty /\ bufDescTable[i].pinCnt > 0
        /\ bufPool[i].data # store[bufDescTable[i].file][bufDescTable[i].pageNo]
        /\ bufDescTable[j].valid /\ ~bufDescTable[j].dirty
        /\ bufPool[j].data # store[bufDescTable[j].file][bufDescTable[j].pageNo]
        /\ Len(destroy.writes) = 1

\* C16: between operations, whether they ended with an error or not, a frame
\* is valid exactly when the hash table maps its (file, pageNo) to it: every
\* valid frame has its entry, and every entry names a valid frame that holds
\* the entry's page.
C16_ValidIffIndexed ==
    /\ \A i \in Frames :
           bufDescTable[i].valid =>
               [file |-> bufDescTable[i].file, pageNo |-> bufDescTable[i].pageNo,
                frameNo |-> i] \in hashTable
    /\ \A e \in hashTable :
           e.frameNo \in Frames /\ Holds(bufDescTable, e.frameNo, e.file, e.pageNo)

\* Two frames are pinned and a scan that failed has cleared their refbits; a
\* call that would evict a dirty page, were one there, meets a failing store.
C16_Witness ==
    /\ AllPinned /\ Cardinality(hashTable) = MaxBufs /\ writeFails
    /\ \A i \in Frames : ~bufDescTable[i].refbit
    /\ \E i \in Frames : bufDescTable[i].dirty

\* The frame handed out is valid, holds (file, pageNo) alone under its hash
\* entry, is pinned once with refbit set and dirty clear, and is at the hand.
FreshFrame(r, file, pageNo) ==
    /\ r.page \in Frames
    /\ r.desc[r.page] = [valid |-> TRUE, refbit |-> TRUE, pinCnt |-> 1,
                         dirty |-> FALSE, file |-> file, pageNo |-> pageNo]
    /\ [file |-> file, pageNo |-> pageNo, frameNo |-> r.page] \in r.hash
    /\ \A e \in r.hash : (e.file = file /\ e.pageNo = pageNo) => e.frameNo = r.page
    /\ r.pool[r.page].pn = pageNo
    /\ r.hand = r.page

\* C17: a readPage that misses and hands out a frame, and an allocPage that
\* succeeds, hand out a frame that is valid, holds the requested (file,
\* pageNo), is in the hash table, has pinCnt = 1, refbit set and dirty clear,
\* and is the frame at the clock hand.
C17_FreshFrame ==
    \A f \in Files, p \in PageIds :
        /\ (~hashHas(hashTable, f, p) /\ readPage(f, p).page # NoFrame) =>
               (readPage(f, p).outcome = "ok" /\ FreshFrame(readPage(f, p), f, p))
        /\ (CanAllocate(f, p) /\ allocPage(f, p).outcome = "ok") =>
               FreshFrame(allocPage(f, p), f, p)

\* A miss and an allocPage each take the frame of a dirty page that was read
\* more than once, away from the first frame of the pool.
C17_Witness ==
    \E f, g \in Files, p, q \in PageIds :
        /\ ~hashHas(hashTable, f, p) /\ CanAllocate(g, q)
        /\ readPage(f, p).page > 0 /\ allocPage(g, q).page > 0
        /\ bufDescTable[readPage(f, p).page].dirty
        /\ readPage(f, p).victim = readPage(f, p).page

\* What is left of a running scan, as the operations compute it.
ScanLeft == allocBufScan(bufDescTable, clockHand, scan.numPinned, scan.inspected)

\* A step of the running allocBuf does what the operations compute: a pass
\* through the loop leaves the rest of the scan with the same end, and the
\* last step ends where the scan says, with an exception that changes nothing
\* or with the frame at the hand cleared.
ScanStep ==
    /\ (scan.active /\ scan'.active) =>
           ScanLeft = allocBufScan(bufDescTable', clockHand', scan'.numPinned,
                                   scan'.inspected)
    /\ (scan.active /\ ~scan'.active) =>
           /\ ScanLeft.hand = clockHand /\ ScanLeft.inspected = scan.inspected
           /\ clockHand' = clockHand
           /\ IF ScanLeft.verdict = "exceeded"
              THEN UNCHANGED <<bufDescTable, hashTable, store>>
              ELSE bufDescTable' = [bufDescTable EXCEPT ![clockHand] = Clear]

\* C18: every call of allocBuf ends, in a pool of any size from 1 on: a scan
\* that has begun comes to its end; allocBuf returns a frame or raises
\* BufferExceededException and nothing else; and when every frame is pinned
\* it raises BufferExceededException.
C18_AllocBufTerminates ==
    /\ scan.active ~> ~scan.active
    /\ [][ScanStep]_vars
    /\ [](\A m \in Misses :
              /\ m.r.alloc \in {"returned", "BufferExceededException"}
              /\ AllPinned => m.r.alloc = "BufferExceededException")

\* allocBuf runs in a pool of one frame that is pinned, and has cleared its
\* refbit.
C18_Witness ==
    /\ numBufs = 1 /\ AllPinned
    /\ scan.active /\ scan.inspected = 2

\* C19 as stated: one call of allocBuf inspects at most numBufs frames before
\* its verdict, and in a pool of one frame that is pinned it fails after one
\* inspection.
C19_AtMostNumBufs ==
    \A m \in Misses :
        /\ m.r.inspected <= numBufs
        /\ (numBufs = 1 /\ AllPinned) =>
               (m.r.alloc = "BufferExceededException" /\ m.r.inspected = 1)

\* C19 as amended: one call of allocBuf inspects at most 2 * numBufs frames
\* before its verdict; in a pool of one frame that is pinned it fails after
\* one inspection when the frame's refbit is clear and after two when it is
\* set.
C19_AtMostTwiceNumBufs ==
    /\ scan.active => scan.inspected <= 2 * numBufs
    /\ \A m \in Misses :
           /\ m.r.inspected >= 1 /\ m.r.inspected <= 2 * numBufs
           /\ (numBufs = 1 /\ AllPinned) =>
                  /\ m.r.alloc = "BufferExceededException"
                  /\ m.r.inspected = IF bufDescTable[0].refbit THEN 2 ELSE 1

\* Every frame of a pool of MaxBufs frames is pinned with its refbit set: a
\* miss inspects each frame twice; and a running scan is at its last frame.
C19_Witness ==
    /\ numBufs = MaxBufs /\ AllPinned
    /\ \A i \in Frames : bufDescTable[i].refbit
    /\ \E m \in Misses : m.r.inspected = 2 * numBufs
    /\ ~scan.active

\* The page numbers in use in the file.
Allocated(st, file) == {p \in PageIds : fileHas(st, file, p)}

\* C20: an allocPage that fails with BufferExceededException with every frame
\* pinned leaves the store as it was: the file has the pages it had before.
C20_FailedAllocKeepsStore ==
    \A f \in Files, p \in PageIds :
        (AllPinned /\ CanAllocate(f, p)) =>
            LET r == allocPage(f, p)
            IN  r.outcome = "BufferExceededException" =>
                    /\ Allocated(r.store, f) = Allocated(store, f)
                    /\ r.store = store

====
